---- MODULE Spec2Model ----
(***************************************************************************)
(* N-ary tree engine of ncandio/n-ary_python_package.                      *)
(*                                                                         *)
(* Two implementations are modelled here:                                  *)
(*   - SuccinctNaryTree<T> (narytree_src/succinct_narytree_unified.cpp),   *)
(*     the arena tree kept in parallel arrays, with its NodeView handles:  *)
(*     variables storage_, ub, view;                                       *)
(*   - NaryTree<T> (narytree_src/nary_tree.cpp), the pointer tree with its *)
(*     succinct codec and balance_tree: variables root_, size_, encoding.  *)
(* The history variable op records the last operation and its outcome.    *)
(*                                                                         *)
(* Indices are 0-based as in the source; TLA+ sequences are 1-based, so    *)
(* element i of a vector v is v[i + 1].                                    *)
(***************************************************************************)
EXTENDS Integers, Sequences, FiniteSets, Bags, TLC

VARIABLES storage_, ub, view, born, root_, size_, encoding, op,
          node_data, children, capacity, next_id, operations_since_balance,
          max_children_per_node_, rebalance_operations_count_,
          auto_rebalancing_enabled_, payload_refs, handed_out,
          array_nodes_, array_root_index_, use_array_storage_, decoder

vars == <<storage_, ub, view, born, root_, size_, encoding, op,
          node_data, children, capacity, next_id, operations_since_balance,
          max_children_per_node_, rebalance_operations_count_,
          auto_rebalancing_enabled_, payload_refs, handed_out,
          array_nodes_, array_root_index_, use_array_storage_, decoder>>

(***************************************************************************)
(* Bounds of the model.                                                    *)
(***************************************************************************)
\* largest number of nodes an arena tree is grown to
MaxNodes == 4
\* cap on operations_since_balance (and so on the structure_bits growth)
MaxOps == 4
\* cap on a child_counts entry (the removal never decrements it)
MaxCount == 3

\* largest number of nodes a pointer tree is grown to
MaxPtrNodes == 4
\* largest max_children_per_node passed to balance_tree
MaxK == 3
\* how many of the bits left unwritten in a structure byte buffer read 1
MaxGarbageBits == 1

\* the payloads: opaque to the engine, two of them so that equal and unequal
\* payloads both occur
Values == {1, 2}

\* longest structure_bits of an encoding handed to decode_succinct
MaxBits == 6

\* most nodes of a NaryTreeAutoRebalancing tree grown past its threshold,
\* and the largest size_ followed
MaxAutoNodes == 11

\* reconstructions after which a NaryTreeAutoRebalancing tree is not followed
MaxRebalances == 2

\* references to one payload that may stay unreleased before a tree is not
\* followed further
MaxLeaks == 1


(***************************************************************************)
(* Generic helpers.                                                        *)
(***************************************************************************)
Min(S) == CHOOSE x \in S : \A y \in S : x <= y

Max(S) == CHOOSE x \in S : \A y \in S : x >= y

\* what a read outside a vector's buffer yields when it is not a payload
GarbageData == Max(Values) + 1

RECURSIVE SortedSeq(_)
SortedSeq(S) == IF S = {} THEN <<>> ELSE <<Min(S)>> \o SortedSeq(S \ {Min(S)})

RECURSIVE ReverseSortedSeq(_)
ReverseSortedSeq(S) ==
    IF S = {} THEN <<>> ELSE <<Max(S)>> \o ReverseSortedSeq(S \ {Max(S)})

\* vector::erase(begin() + idx)
Erase(s, idx) == [j \in 1 .. Len(s) - 1 |-> IF j <= idx THEN s[j] ELSE s[j + 1]]

\* the concatenation of the sequences in ss, halving ss
RECURSIVE FlattenSeq(_)
FlattenSeq(ss) ==
    IF Len(ss) = 0 THEN <<>>
    ELSE IF Len(ss) = 1 THEN ss[1]
    ELSE FlattenSeq(SubSeq(ss, 1, Len(ss) \div 2)) \o
         FlattenSeq(SubSeq(ss, Len(ss) \div 2 + 1, Len(ss)))

RECURSIVE SeqToBag(_)
SeqToBag(s) == IF s = <<>> THEN EmptyBag ELSE SetToBag({Head(s)}) (+) SeqToBag(Tail(s))

(***************************************************************************)
(* Nested trees: a node is [data |-> v, children |-> <<node, ...>>].       *)
(* NullTree is the empty tree (a null root pointer).                       *)
(***************************************************************************)
NullTree == [null |-> TRUE]

MkNode(v, kids) == [data |-> v, children |-> kids]

RECURSIVE SumSeq(_)
SumSeq(s) ==
    IF Len(s) = 0 THEN 0
    ELSE IF Len(s) = 1 THEN s[1]
    ELSE SumSeq(SubSeq(s, 1, Len(s) \div 2)) + SumSeq(SubSeq(s, Len(s) \div 2 + 1, Len(s)))

\* the largest element of s, 0 for the empty sequence
MaxSeq(s) == IF s = <<>> THEN 0 ELSE Max({s[k] : k \in 1 .. Len(s)})

RECURSIVE total_nodes(_)
total_nodes(node) ==
    1 + SumSeq([k \in 1 .. Len(node.children) |-> total_nodes(node.children[k])])

\* Node::depth: nodes on the longest path from this node down to a leaf
RECURSIVE depth(_)
depth(node) ==
    MaxSeq([k \in 1 .. Len(node.children) |-> depth(node.children[k])]) + 1

\* Node::for_each_preorder, collecting the payloads
RECURSIVE preorder_data(_)
preorder_data(node) ==
    <<node.data>> \o
    FlattenSeq([k \in 1 .. Len(node.children) |-> preorder_data(node.children[k])])

TreeCount(t) == IF t = NullTree THEN 0 ELSE total_nodes(t)

TreeDepth(t) == IF t = NullTree THEN 0 ELSE depth(t)

TreeData(t) == IF t = NullTree THEN <<>> ELSE preorder_data(t)

(***************************************************************************)
(* SuccinctNaryTree<T>: the arena tree.                                    *)
(* storage_ is the SuccinctWorkingStorage record.                          *)
(***************************************************************************)
\* std::numeric_limits<size_t>::max(), the "not found" index; it is only ever
\* compared, never computed with
SIZE_MAX == 2147483647

LAZY_BALANCE_THRESHOLD == 100

\* SuccinctWorkingStorage(): all vectors empty, both counters 0
EmptyStorage ==
    [structure_bits |-> <<>>, data_array |-> <<>>, parent_indices |-> <<>>,
     first_child_pos |-> <<>>, child_counts |-> <<>>,
     node_count |-> 0, operations_since_balance |-> 0]

clear(st) == EmptyStorage

initialize_with_root(st, root_data) ==
    [structure_bits |-> <<TRUE, FALSE>>,
     data_array |-> <<root_data>>,
     parent_indices |-> <<0>>,
     first_child_pos |-> <<0>>,
     child_counts |-> <<0>>,
     node_count |-> 1,
     operations_since_balance |-> 0]

update_structure_bits_for_new_child(st) ==
    [st EXCEPT !.structure_bits = @ \o <<TRUE, FALSE>>]

\* the scan of get_child_node_index: the indices after parent_index whose
\* parent is parent_index, of which the loop returns the one that has
\* child_index of them before it
children_after(st, parent_index) ==
    {i \in parent_index + 1 .. st.node_count - 1 :
        st.parent_indices[i + 1] = parent_index}

get_child_node_index(st, parent_index, child_index) ==
    IF parent_index >= Len(st.child_counts) THEN SIZE_MAX
    ELSE IF child_index >= st.child_counts[parent_index + 1] THEN SIZE_MAX
    ELSE LET found == children_after(st, parent_index) IN
         IF child_index >= Cardinality(found) THEN SIZE_MAX
         ELSE CHOOSE i \in found : Cardinality({j \in found : j < i}) = child_index

\* the children get_child_node_index yields for child indices 0 .. child_count - 1
child_indices(st, node_index) ==
    [k \in 1 .. st.child_counts[node_index + 1] |->
        get_child_node_index(st, node_index, k - 1)]

RECURSIVE collect_descendants(_, _)
collect_descendants(st, node_index) ==
    <<node_index>> \o
    FlattenSeq([k \in 1 .. st.node_count |->
        IF st.parent_indices[k] = node_index
        THEN collect_descendants(st, k - 1) ELSE <<>>])

\* the erase loop of remove_node_and_descendants over the reverse-sorted indices
RECURSIVE erase_all(_, _)
erase_all(st, to_remove) ==
    IF to_remove = <<>> THEN st
    ELSE LET idx == Head(to_remove) IN
         IF idx < Len(st.data_array)
         THEN erase_all([st EXCEPT !.data_array = Erase(@, idx),
                                   !.parent_indices = Erase(@, idx),
                                   !.child_counts = Erase(@, idx),
                                   !.first_child_pos = Erase(@, idx),
                                   !.node_count = @ - 1],
                        Tail(to_remove))
         ELSE erase_all(st, Tail(to_remove))

\* update_indices_after_removal leaving the parent indices as they were
update_indices_after_removal_skipped(st, removed_indices) == st

update_indices_after_removal(st, removed_indices) ==
    [st EXCEPT !.parent_indices =
        [i \in 1 .. Len(@) |->
            LET parent_idx == @[i]
                offset == Cardinality({r \in 1 .. Len(removed_indices) :
                                          removed_indices[r] < parent_idx})
            IN  IF offset > 0 THEN parent_idx - offset ELSE parent_idx]]

remove_node_and_descendants(st, node_index) ==
    IF node_index >= st.node_count THEN st
    ELSE LET found == collect_descendants(st, node_index)
             to_remove == ReverseSortedSeq({found[k] : k \in 1 .. Len(found)})
         IN  update_indices_after_removal(erase_all(st, to_remove), to_remove)

(***************************************************************************)
(* Locality score.  The source computes a double; the model keeps the sum  *)
(* of the terms 1 / (1 + distance / 10) = 10 / (10 + distance) in units of *)
(* 1e-5 (num) together with the number of terms (den).                     *)
(***************************************************************************)
ScoreOne == [num |-> 100000, den |-> 1]

AbsDiff(a, b) == IF a >= b THEN a - b ELSE b - a

calculate_locality_score(st) ==
    IF st.node_count <= 1 THEN ScoreOne
    ELSE LET terms == FlattenSeq([k \in 1 .. st.node_count |->
                 LET kids == child_indices(st, k - 1) IN
                 FlattenSeq([j \in 1 .. Len(kids) |->
                     IF kids[j] # SIZE_MAX
                     THEN <<1000000 \div (10 + AbsDiff(kids[j], k - 1))>>
                     ELSE <<>>])])
         IN  IF Len(terms) > 0 THEN [num |-> SumSeq(terms), den |-> Len(terms)]
             ELSE ScoreOne

\* locality_score < 0.7
needs_locality_rebalancing(st) ==
    IF st.node_count <= 3 THEN FALSE
    ELSE LET score == calculate_locality_score(st)
         IN  score.num * 10 < 7 * 100000 * score.den

(***************************************************************************)
(* rebalance_for_locality.                                                 *)
(***************************************************************************)
\* The order in which the breadth-first loop pops old indices off its queue,
\* taken a queue-full at a time: what the loop pushes while it pops the
\* entries of queue is the next queue-full.
\* child_counts[SIZE_MAX] is a read outside the buffer; the bytes before a
\* heap buffer hold no count, it reads as 0.
RECURSIVE bfs_order(_, _)
bfs_order(st, queue) ==
    IF queue = <<>> THEN <<>>
    ELSE queue \o
         bfs_order(st, FlattenSeq([k \in 1 .. Len(queue) |->
                           IF queue[k] = SIZE_MAX THEN <<>>
                           ELSE child_indices(st, queue[k])]))

\* old_to_new_mapping[old_index]: the position at which old_index was popped
old_to_new_mapping(order, old_index) ==
    Min({j \in 1 .. Len(order) : order[j] = old_index}) - 1

\* the same loop as rebuild_structure_bits_locality_optimized runs it: a child
\* index of SIZE_MAX is not pushed
RECURSIVE bfs_order_checked(_, _)
bfs_order_checked(st, queue) ==
    IF queue = <<>> THEN <<>>
    ELSE queue \o
         bfs_order_checked(st, FlattenSeq([k \in 1 .. Len(queue) |->
             SelectSeq(child_indices(st, queue[k]), LAMBDA c : c # SIZE_MAX)]))

rebuild_structure_bits_locality_optimized(st) ==
    LET order == bfs_order_checked(st, <<0>>)
    IN  [st EXCEPT !.structure_bits =
            FlattenSeq([j \in 1 .. Len(order) |-> <<TRUE, FALSE>>])]

\* the storage rebalance_for_locality leaves when its loop popped `order`;
\* garbage is what data_array[SIZE_MAX] read, for the entries of order that
\* are SIZE_MAX (parent_indices[SIZE_MAX] and child_counts[SIZE_MAX] read 0)
reordered_storage(st, order, garbage) ==
    rebuild_structure_bits_locality_optimized(
        [st EXCEPT
            !.data_array = [j \in 1 .. Len(order) |->
                IF order[j] = SIZE_MAX THEN garbage ELSE st.data_array[order[j] + 1]],
            !.child_counts = [j \in 1 .. Len(order) |->
                IF order[j] = SIZE_MAX THEN 0 ELSE st.child_counts[order[j] + 1]],
            !.parent_indices = [j \in 1 .. Len(order) |->
                IF order[j] = SIZE_MAX \/ order[j] = 0 THEN 0
                ELSE old_to_new_mapping(order, st.parent_indices[order[j] + 1])],
            !.first_child_pos = [j \in 1 .. Len(order) |-> 0],
            !.operations_since_balance = 0])

\* The outcomes of rebalance_for_locality: [st, ub].  When a child lookup fails
\* (get_child_node_index returns SIZE_MAX because child_counts exceeds the
\* children present), the loop pushes SIZE_MAX and then indexes every vector
\* with it: undefined behaviour.  The write old_to_new_mapping[SIZE_MAX] lands
\* on the allocator's bookkeeping in front of the buffer, so the process either
\* aborts (storage as it was), or returns with an entry made of whatever the
\* reads yielded and a corrupted heap.  Both outcomes set ub, and the model
\* follows the process no further.
rebalance_for_locality(st) ==
    IF st.node_count <= 3 THEN {[st |-> st, ub |-> FALSE]}
    ELSE LET order == bfs_order(st, <<0>>) IN
         IF \A j \in 1 .. Len(order) : order[j] # SIZE_MAX
         THEN {[st |-> reordered_storage(st, order, GarbageData), ub |-> FALSE]}
         ELSE {[st |-> st, ub |-> TRUE]} \cup
              {[st |-> reordered_storage(st, order, g), ub |-> TRUE] :
                  g \in Values \cup {GarbageData}}

check_and_rebalance_for_locality(st) ==
    IF st.operations_since_balance >= LAZY_BALANCE_THRESHOLD
       /\ needs_locality_rebalancing(st)
    THEN rebalance_for_locality(st)
    ELSE {[st |-> st, ub |-> FALSE]}

\* add_child_to_node up to its rebalance check: the appends, the parent's
\* count, the structure bits, the two counters
append_child(st, parent_index, child_data) ==
    LET pushed == [st EXCEPT !.data_array = Append(@, child_data),
                             !.parent_indices = Append(@, parent_index),
                             !.child_counts = Append(@, 0),
                             !.first_child_pos = Append(@, 0)]
        counted == IF parent_index < Len(pushed.child_counts)
                   THEN [pushed EXCEPT !.child_counts[parent_index + 1] = @ + 1]
                   ELSE pushed
        bits == update_structure_bits_for_new_child(counted)
    IN  [bits EXCEPT !.node_count = @ + 1, !.operations_since_balance = @ + 1]

\* The outcomes of add_child_to_node: [st, ub, ok, ret]; ok = FALSE is the
\* std::out_of_range exception, ret the index of the NodeView returned.
add_child_to_node_counting_failures(st, parent_index, child_data) ==
    IF parent_index >= st.node_count
    THEN {[st |-> [st EXCEPT !.operations_since_balance = @ + 1],
           ub |-> FALSE, ok |-> FALSE, ret |-> SIZE_MAX]}
    ELSE {[st |-> o.st, ub |-> o.ub, ok |-> TRUE, ret |-> st.node_count] :
             o \in check_and_rebalance_for_locality(
                       append_child(st, parent_index, child_data))}

add_child_to_node(st, parent_index, child_data) ==
    IF parent_index >= st.node_count
    THEN {[st |-> st, ub |-> FALSE, ok |-> FALSE, ret |-> SIZE_MAX]}
    ELSE {[st |-> o.st, ub |-> o.ub, ok |-> TRUE, ret |-> st.node_count] :
             o \in check_and_rebalance_for_locality(
                       append_child(st, parent_index, child_data))}

\* remove_child_from_node up to its rebalance check, for a child that exists
detach_child(st, child_node_index) ==
    [remove_node_and_descendants(st, child_node_index)
        EXCEPT !.operations_since_balance = @ + 1]

\* The outcomes of remove_child_from_node: [st, ub, ok]; ok is the bool
\* the method returns.
remove_child_from_node(st, parent_index, child_index) ==
    IF parent_index >= st.node_count
    THEN {[st |-> st, ub |-> FALSE, ok |-> FALSE]}
    ELSE LET child_node_index == get_child_node_index(st, parent_index, child_index) IN
         IF child_node_index >= st.node_count
         THEN {[st |-> st, ub |-> FALSE, ok |-> FALSE]}
         ELSE {[st |-> o.st, ub |-> o.ub, ok |-> TRUE] :
                  o \in check_and_rebalance_for_locality(
                            detach_child(st, child_node_index))}

\* the breadth-first loop of calculate_max_depth over {node_index, depth} pairs
RECURSIVE max_depth_loop(_, _, _)
max_depth_loop(st, queue, max_depth) ==
    IF queue = <<>> THEN max_depth
    ELSE LET node_idx == Head(queue)[1]
             d == Head(queue)[2]
             kids == SelectSeq(child_indices(st, node_idx), LAMBDA c : c # SIZE_MAX)
         IN  max_depth_loop(st,
                            Tail(queue) \o [j \in 1 .. Len(kids) |-> <<kids[j], d + 1>>],
                            IF d > max_depth THEN d ELSE max_depth)

calculate_max_depth(st) ==
    IF st.node_count = 0 THEN 0 ELSE max_depth_loop(st, <<<<0, 1>>>>, 0)

(***************************************************************************)
(* NodeView: a (tree, node_index) pair.  The model follows one view.  Its  *)
(* field node_index is what the object holds; target is bookkeeping of the *)
(* model: the index at which the node the view was issued for lives now,   *)
(* SIZE_MAX once that node is gone; moved_by names the operation that last *)
(* changed target.                                                         *)
(***************************************************************************)
NoView == [held |-> FALSE, node_index |-> 0, target |-> 0, moved_by |-> "none"]

NodeView(index, st) ==
    [held |-> TRUE, node_index |-> index,
     target |-> IF index < st.node_count THEN index ELSE SIZE_MAX,
     moved_by |-> "none"]

Retarget(v, new_target, by) ==
    IF v.held /\ v.target # new_target
    THEN [v EXCEPT !.target = new_target, !.moved_by = by]
    ELSE v

\* where the node at old index i lives after remove_node_and_descendants(node_index)
index_after_removal(st, node_index, i) ==
    LET found == collect_descendants(st, node_index)
        gone == {found[k] : k \in 1 .. Len(found)}
    IN  IF i \in gone THEN SIZE_MAX
        ELSE i - Cardinality({r \in gone : r < i})

\* where the node at old index i lives after the breadth-first reordering
index_after_reorder(st, i) ==
    LET order == bfs_order(st, <<0>>)
    IN  IF \E j \in 1 .. Len(order) : order[j] = i
        THEN old_to_new_mapping(order, i) ELSE SIZE_MAX

ViewAfterReorder(v, st) ==
    IF v.held /\ v.target # SIZE_MAX /\ st.node_count > 3
    THEN Retarget(v, index_after_reorder(st, v.target), "reorder")
    ELSE v

(***************************************************************************)
(* born is bookkeeping of the model: born[i + 1] is the rank, among the    *)
(* nodes the arena holds, of the add_child call (set_root for rank 0) that *)
(* created the node now at index i.                                        *)
(***************************************************************************)
\* the ranks once remove_node_and_descendants(node_index) erased its entries
born_after_removal(st, node_index, b) ==
    LET found == collect_descendants(st, node_index)
        gone == {found[k] : k \in 1 .. Len(found)}
        kept == SortedSeq((0 .. st.node_count - 1) \ gone)
    IN  [j \in 1 .. Len(kept) |->
            b[kept[j] + 1] - Cardinality({g \in gone : b[g + 1] < b[kept[j] + 1]})]

\* the ranks once rebalance_for_locality moved the entries
born_after_reorder(st, b) ==
    IF st.node_count <= 3 THEN b
    ELSE LET order == bfs_order(st, <<0>>) IN
         IF \E j \in 1 .. Len(order) : order[j] = SIZE_MAX THEN b
         ELSE [j \in 1 .. Len(order) |-> b[order[j] + 1]]

\* the ranks after a successful add_child_to_node(parent_index, v)
born_after_add(st, parent_index, v, b) ==
    LET appended == append_child(st, parent_index, v)
        b1 == Append(b, Len(b))
    IN  IF st.operations_since_balance + 1 >= LAZY_BALANCE_THRESHOLD
           /\ needs_locality_rebalancing(appended)
        THEN born_after_reorder(appended, b1)
        ELSE b1

\* the record kept in op
Did(name, ok, ret, a, b) == [name |-> name, ok |-> ok, ret |-> ret, a |-> a, b |-> b]

\* the fields of the PyObject* arena (succinct_narytree_unified.cpp at the top
\* of the tree); capacity[i] is children[i].capacity()
PyFieldsUnchanged ==
    UNCHANGED <<node_data, children, capacity, next_id, operations_since_balance>>

\* the arena and the references its wrapper holds: payload_refs[v] is the
\* number of Py_INCREF minus the number of Py_DECREF done on payload v on
\* behalf of the tree, and the caller holds NodeView objects for the node
\* ids below handed_out (NaryTree_root and NodeView_add_child return them,
\* and nothing invalidates them)
PyUnchanged ==
    /\ PyFieldsUnchanged
    /\ UNCHANGED <<payload_refs, handed_out>>

\* the fields NaryTreeAutoRebalancing has beside root_ and size_
AutoUnchanged ==
    UNCHANGED <<max_children_per_node_, rebalance_operations_count_,
                auto_rebalancing_enabled_>>

\* the array storage of NaryTree: array_nodes_, array_root_index_ and
\* use_array_storage_
ArrayUnchanged ==
    UNCHANGED <<array_nodes_, array_root_index_, use_array_storage_>>

PtrUnchanged ==
    /\ UNCHANGED <<root_, size_, encoding>>
    /\ ArrayUnchanged
    /\ UNCHANGED decoder
    /\ PyUnchanged
    /\ AutoUnchanged

(***************************************************************************)
(* Operations of the arena tree.                                           *)
(***************************************************************************)
ArenaSetRoot(v) ==
    /\ ~ub
    /\ storage_' = initialize_with_root(clear(storage_), v)
    /\ view' = Retarget(view, SIZE_MAX, "set_root")
    /\ born' = <<0>>
    /\ op' = Did("set_root", TRUE, 0, v, 0)
    /\ UNCHANGED ub
    /\ PtrUnchanged

ArenaClear ==
    /\ ~ub
    /\ storage_' = clear(storage_)
    /\ view' = Retarget(view, SIZE_MAX, "clear")
    /\ born' = <<>>
    /\ op' = Did("clear", TRUE, 0, 0, 0)
    /\ UNCHANGED ub
    /\ PtrUnchanged

LazyReorderRuns(st) ==
    /\ st.operations_since_balance >= LAZY_BALANCE_THRESHOLD
    /\ needs_locality_rebalancing(st)

CanGrow(st, parent_index) ==
    parent_index < st.node_count =>
        /\ st.node_count < MaxNodes
        /\ st.operations_since_balance < MaxOps
        /\ st.child_counts[parent_index + 1] < MaxCount

AddChildStep(parent_index, v) ==
    /\ ~ub
    /\ \E o \in add_child_to_node(storage_, parent_index, v) :
          /\ storage_' = o.st
          /\ ub' = o.ub
          /\ op' = Did("add_child_to_node", o.ok, o.ret, parent_index,
                       IF o.ok THEN v ELSE 0)
          /\ view' = IF view.held /\ o.ok
                        /\ LazyReorderRuns(append_child(storage_, parent_index, v))
                     THEN ViewAfterReorder(view, append_child(storage_, parent_index, v))
                     ELSE view
          /\ born' = IF o.ok THEN born_after_add(storage_, parent_index, v, born)
                     ELSE born
    /\ PtrUnchanged

ArenaAddChild(parent_index, v) ==
    /\ CanGrow(storage_, parent_index)
    /\ AddChildStep(parent_index, v)

\* the add_child_to_node call that brings operations_since_balance to the
\* threshold
ArenaAddChildAtThreshold(parent_index, v) ==
    /\ storage_.operations_since_balance = LAZY_BALANCE_THRESHOLD - 1
    /\ AddChildStep(parent_index, v)

RemoveChildStep(parent_index, child_index) ==
    /\ ~ub
    /\ \E o \in remove_child_from_node(storage_, parent_index, child_index) :
          /\ storage_' = o.st
          /\ ub' = o.ub
          /\ op' = Did("remove_child_from_node", o.ok,
                       IF o.ok
                       THEN get_child_node_index(storage_, parent_index, child_index)
                       ELSE 0,
                       IF o.ok THEN parent_index ELSE 0,
                       IF o.ok THEN child_index ELSE 0)
          /\ view' =
                IF ~o.ok \/ ~view.held \/ view.target = SIZE_MAX THEN view
                ELSE LET c == get_child_node_index(storage_, parent_index, child_index)
                         v1 == Retarget(view,
                                        index_after_removal(storage_, c, view.target),
                                        "remove")
                     IN  IF LazyReorderRuns(detach_child(storage_, c))
                         THEN ViewAfterReorder(v1, detach_child(storage_, c))
                         ELSE v1
          /\ born' =
                IF ~o.ok THEN born
                ELSE LET c == get_child_node_index(storage_, parent_index, child_index)
                         b1 == born_after_removal(storage_, c, born)
                     IN  IF LazyReorderRuns(detach_child(storage_, c))
                         THEN born_after_reorder(detach_child(storage_, c), b1)
                         ELSE b1
    /\ PtrUnchanged

ArenaRemoveChild(parent_index, child_index) ==
    /\ storage_.operations_since_balance < MaxOps
    /\ RemoveChildStep(parent_index, child_index)

\* the remove_child_from_node call that brings operations_since_balance to
\* the threshold
ArenaRemoveChildAtThreshold(parent_index, child_index) ==
    /\ storage_.operations_since_balance = LAZY_BALANCE_THRESHOLD - 1
    /\ RemoveChildStep(parent_index, child_index)

ArenaRebalance ==
    /\ ~ub
    /\ \E o \in rebalance_for_locality(storage_) :
          /\ storage_' = o.st
          /\ ub' = o.ub
          /\ op' = Did("rebalance_for_locality", TRUE, 0, 0, 0)
          /\ view' = IF o.ub THEN view ELSE ViewAfterReorder(view, storage_)
          /\ born' = born_after_reorder(storage_, born)
    /\ PtrUnchanged

(***************************************************************************)
(* Operations through the NodeView.                                        *)
(***************************************************************************)
\* SuccinctNaryTree::root(): throws on an empty tree
ViewRoot ==
    /\ ~ub
    /\ IF storage_.node_count = 0
       THEN /\ op' = Did("root", FALSE, 0, 0, 0)
            /\ UNCHANGED view
       ELSE /\ op' = Did("root", TRUE, 0, 0, 0)
            /\ view' = NodeView(0, storage_)
    /\ UNCHANGED <<storage_, ub, born>>
    /\ PtrUnchanged

\* NodeView::child: no check of what get_child_node_index returns
ViewChild(child_index) ==
    /\ ~ub
    /\ view.held
    /\ LET c == get_child_node_index(storage_, view.node_index, child_index) IN
          /\ op' = Did("child", TRUE, c, view.node_index, child_index)
          /\ view' = NodeView(c, storage_)
    /\ UNCHANGED <<storage_, ub, born>>
    /\ PtrUnchanged

\* NodeView::data() const
ViewData ==
    /\ ~ub
    /\ view.held
    /\ op' = IF view.node_index >= Len(storage_.data_array)
             THEN Did("data", FALSE, 0, view.node_index, 0)
             ELSE Did("data", TRUE, storage_.data_array[view.node_index + 1],
                      view.node_index, 0)
    /\ UNCHANGED <<storage_, ub, view, born>>
    /\ PtrUnchanged

\* NodeView::set_data
ViewSetData(v) ==
    /\ ~ub
    /\ view.held
    /\ IF view.node_index >= Len(storage_.data_array)
       THEN /\ op' = Did("set_data", FALSE, 0, view.node_index, v)
            /\ UNCHANGED storage_
       ELSE /\ op' = Did("set_data", TRUE, 0, view.node_index, v)
            /\ storage_' = [storage_ EXCEPT !.data_array[view.node_index + 1] = v]
    /\ UNCHANGED <<ub, view, born>>
    /\ PtrUnchanged

\* NodeView::child_count: 0 for an index outside child_counts, no exception
ViewChildCount ==
    /\ ~ub
    /\ view.held
    /\ op' = Did("child_count", TRUE,
                 IF view.node_index >= Len(storage_.child_counts) THEN 0
                 ELSE storage_.child_counts[view.node_index + 1],
                 view.node_index, 0)
    /\ UNCHANGED <<storage_, ub, view, born>>
    /\ PtrUnchanged

\* NodeView::add_child: add_child_to_node(node_index_, child_data)
ViewAddChild(v) ==
    /\ ~ub
    /\ view.held
    /\ CanGrow(storage_, view.node_index)
    /\ \E o \in add_child_to_node(storage_, view.node_index, v) :
          /\ storage_' = o.st
          /\ ub' = o.ub
          /\ op' = Did("view_add_child", o.ok, o.ret, view.node_index, v)
          /\ view' = IF view.held /\ o.ok
                        /\ LazyReorderRuns(append_child(storage_, view.node_index, v))
                     THEN ViewAfterReorder(view, append_child(storage_, view.node_index, v))
                     ELSE view
          /\ born' = IF o.ok THEN born_after_add(storage_, view.node_index, v, born)
                     ELSE born
    /\ PtrUnchanged

(***************************************************************************)
(* NaryTree<T>: the pointer tree (nary_tree.cpp), as the nested tree its   *)
(* unique_ptr children form.  A node is addressed by the path of child     *)
(* indices (0-based) leading to it from the root.                          *)
(***************************************************************************)
RECURSIVE NodePaths(_)
NodePaths(node) ==
    {<<>>} \cup
    UNION {{<<k - 1>> \o q : q \in NodePaths(node.children[k])} :
              k \in 1 .. Len(node.children)}

TreePaths(t) == IF t = NullTree THEN {} ELSE NodePaths(t)

\* Node::add_child(T) on the node at path: the new node goes last
RECURSIVE add_child(_, _, _)
add_child(node, path, child_data) ==
    IF path = <<>>
    THEN [node EXCEPT !.children = Append(@, MkNode(child_data, <<>>))]
    ELSE [node EXCEPT !.children[Head(path) + 1] = add_child(@, Tail(path), child_data)]

\* collect_all_data: the payloads in level order
RECURSIVE collect_loop(_, _)
collect_loop(queue, data) ==
    IF queue = <<>> THEN data
    ELSE collect_loop(Tail(queue) \o Head(queue).children,
                      Append(data, Head(queue).data))

collect_all_data(t) == IF t = NullTree THEN <<>> ELSE collect_loop(<<t>>, <<>>)

MinOf(a, b) == IF a <= b THEN a ELSE b

\* build_balanced_subtree over data[start, end) (0-based, end exclusive);
\* NullTree is the nullptr it returns for an empty range
RECURSIVE build_balanced_subtree(_, _, _, _)
RECURSIVE build_children(_, _, _, _, _, _, _, _)
build_children(data, end, max_children_per_node, children_count, base_size, extra, i, current_start) ==
    IF ~(i < children_count /\ current_start < end) THEN <<>>
    ELSE LET child_size == base_size + (IF i < extra THEN 1 ELSE 0)
             child_end == MinOf(current_start + child_size, end)
             child == build_balanced_subtree(data, current_start, child_end,
                                             max_children_per_node)
         IN  (IF child # NullTree THEN <<child>> ELSE <<>>) \o
             build_children(data, end, max_children_per_node, children_count,
                            base_size, extra, i + 1, child_end)

build_balanced_subtree(data, start, end, max_children_per_node) ==
    IF start >= end THEN NullTree
    ELSE IF end - start = 1 THEN MkNode(data[start + 1], <<>>)
    ELSE LET remaining == end - start - 1
             children_count == MinOf(remaining, max_children_per_node)
         IN  IF children_count = 0 THEN MkNode(data[start + 1], <<>>)
             ELSE MkNode(data[start + 1],
                         build_children(data, end, max_children_per_node,
                                        children_count,
                                        remaining \div children_count,
                                        remaining % children_count,
                                        0, start + 1))

\* balance_tree: the root it leaves (size_ is not touched)
balance_tree(t, size, max_children_per_node) ==
    IF t = NullTree \/ size <= 1 THEN t
    ELSE LET data == collect_all_data(t)
         IN  build_balanced_subtree(data, 0, Len(data), max_children_per_node)

(***************************************************************************)
(* The succinct codec of NaryTree.                                         *)
(***************************************************************************)
\* encode_succinct_preorder: [bits, data] appended for the subtree of node
RECURSIVE encode_succinct_preorder(_)
encode_succinct_preorder(node) ==
    LET kids == [k \in 1 .. Len(node.children) |->
                    encode_succinct_preorder(node.children[k])]
    IN  [bits |-> <<TRUE>> \o FlattenSeq([k \in 1 .. Len(kids) |-> kids[k].bits])
                  \o <<FALSE>>,
         data |-> <<node.data>> \o FlattenSeq([k \in 1 .. Len(kids) |-> kids[k].data])]

\* no encoding at hand
NoEncoding == [none |-> TRUE]

\* encode_succinct; for the empty tree the source returns before it assigns
\* node_count, which then holds an indeterminate value
encode_succinct(t, size, indeterminate) ==
    IF t = NullTree
    THEN [structure_bits |-> <<>>, data_array |-> <<>>, node_count |-> indeterminate]
    ELSE LET e == encode_succinct_preorder(t)
         IN  [structure_bits |-> e.bits, data_array |-> e.data, node_count |-> size]

\* decode_succinct_preorder: [node, bit_index, data_index], node = NullTree
\* for the nullptr
RECURSIVE decode_succinct_preorder(_, _, _, _)
RECURSIVE decode_children(_, _, _, _, _)
decode_children(structure, data, bit_index, data_index, decoded) ==
    IF bit_index < Len(structure) /\ structure[bit_index + 1]
    THEN LET c == decode_succinct_preorder(structure, data, bit_index, data_index)
         IN  decode_children(structure, data, c.bit_index, c.data_index,
                             IF c.node # NullTree THEN Append(decoded, c.node)
                             ELSE decoded)
    ELSE [children |-> decoded, bit_index |-> bit_index, data_index |-> data_index]

decode_succinct_preorder(structure, data, bit_index, data_index) ==
    IF bit_index >= Len(structure) \/ ~structure[bit_index + 1]
    THEN [node |-> NullTree, bit_index |-> bit_index, data_index |-> data_index]
    ELSE IF data_index >= Len(data)
    THEN [node |-> NullTree, bit_index |-> bit_index + 1, data_index |-> data_index]
    ELSE LET r == decode_children(structure, data, bit_index + 1, data_index + 1, <<>>)
         IN  [node |-> MkNode(data[data_index + 1], r.children),
              bit_index |-> IF r.bit_index < Len(structure) THEN r.bit_index + 1
                            ELSE r.bit_index,
              data_index |-> r.data_index]

\* decode_succinct: [root, size] of the tree returned
decode_succinct(e) ==
    IF e.structure_bits = <<>> \/ e.data_array = <<>>
    THEN [root |-> NullTree, size |-> 0]
    ELSE [root |-> decode_succinct_preorder(e.structure_bits, e.data_array, 0, 0).node,
          size |-> e.node_count]

ArenaUnchanged ==
    /\ UNCHANGED <<storage_, ub, view, born>>
    /\ PyUnchanged

(***************************************************************************)
(* Operations of the pointer tree.  encoding is the SuccinctEncoding the   *)
(* last operation returned, NoEncoding when it returned none.              *)
(***************************************************************************)
PtrSetRoot(v) ==
    /\ root_' = MkNode(v, <<>>)
    /\ size_' = 1
    /\ encoding' = NoEncoding
    /\ ArrayUnchanged
    /\ UNCHANGED decoder
    /\ op' = Did("set_root", TRUE, 0, v, 0)
    /\ ArenaUnchanged
    /\ AutoUnchanged

PtrClear ==
    /\ root_' = NullTree
    /\ size_' = 0
    /\ encoding' = NoEncoding
    /\ ArrayUnchanged
    /\ UNCHANGED decoder
    /\ op' = Did("clear", TRUE, 0, 0, 0)
    /\ ArenaUnchanged
    /\ AutoUnchanged

\* node_add_child on a handle of the node at path: Node::add_child, and
\* nothing else
PtrAddChild(path, v) ==
    /\ path \in TreePaths(root_)
    /\ TreeCount(root_) < MaxPtrNodes
    /\ root_' = add_child(root_, path, v)
    /\ encoding' = NoEncoding
    /\ ArrayUnchanged
    /\ UNCHANGED decoder
    /\ op' = Did("add_child", TRUE, 0, Len(path), v)
    /\ UNCHANGED size_
    /\ ArenaUnchanged
    /\ AutoUnchanged

PtrBalance(k) ==
    /\ root_' = balance_tree(root_, size_, k)
    /\ encoding' = NoEncoding
    /\ ArrayUnchanged
    /\ UNCHANGED decoder
    /\ op' = Did("balance_tree", TRUE, 0, k, 0)
    /\ UNCHANGED size_
    /\ ArenaUnchanged
    /\ AutoUnchanged

\* The structure bytes narytree_encode_succinct builds, as the bits
\* narytree_decode_succinct unpacks from them.  The buffer comes from
\* PyBytes_FromStringAndSize(nullptr, n), which leaves its contents
\* uninitialised, and the loop only ORs the set bits in: a bit that is not set
\* in structure_bits, or that pads the last byte, reads as whatever the memory
\* held.  garbage is the set of those positions that read 1.
structure_bytes(structure_bits, garbage) ==
    [i \in 1 .. ((Len(structure_bits) + 7) \div 8) * 8 |->
        \/ i <= Len(structure_bits) /\ structure_bits[i]
        \/ i \in garbage]

\* the positions narytree_encode_succinct never writes
unwritten_bits(structure_bits) ==
    {i \in 1 .. ((Len(structure_bits) + 7) \div 8) * 8 :
        i > Len(structure_bits) \/ ~structure_bits[i]}

\* narytree_encode_succinct: encode_succinct, then the dict built from it
PtrEncode ==
    /\ \E indeterminate \in 0 .. MaxPtrNodes :
          LET e == encode_succinct(root_, size_, indeterminate) IN
          \E garbage \in SUBSET unwritten_bits(e.structure_bits) :
              /\ Cardinality(garbage) <= MaxGarbageBits
              /\ encoding' = [e EXCEPT !.structure_bits = structure_bytes(@, garbage)]
              /\ op' = Did("encode_succinct", TRUE, Cardinality(garbage), 0, 0)
    /\ UNCHANGED <<root_, size_>>
    /\ ArrayUnchanged
    /\ UNCHANGED decoder
    /\ ArenaUnchanged
    /\ AutoUnchanged

\* narytree_decode_succinct of the dict at hand, with the node_count entry the
\* caller passes along; the tree returned is the one followed from here on
PtrDecode(node_count) ==
    /\ encoding # NoEncoding
    /\ LET t == decode_succinct([encoding EXCEPT !.node_count = node_count]) IN
          /\ root_' = t.root
          /\ size_' = t.size
    /\ encoding' = NoEncoding
    /\ array_nodes_' = <<>>
    /\ array_root_index_' = -1
    /\ use_array_storage_' = FALSE
    /\ UNCHANGED decoder
    /\ op' = Did("decode_succinct", TRUE, 0, node_count, 0)
    /\ ArenaUnchanged
    /\ AutoUnchanged

(***************************************************************************)
(* SuccinctNaryTree over PyObject* (succinct_narytree_unified.cpp at the   *)
(* top of the tree): node_data, children, next_id and                      *)
(* operations_since_balance are its fields; capacity[i] is the capacity of *)
(* the vector children[i], which get_locality_statistics reads.            *)
(***************************************************************************)
\* std::vector::push_back on a vector of `size` elements and capacity `cap`:
\* a full vector doubles
capacity_after_push_back(size, cap) ==
    IF size < cap THEN cap ELSE IF cap = 0 THEN 1 ELSE 2 * cap

\* get_locality_statistics().locality_score = max(0, 1 - compression_ratio)
\* with compression_ratio = total_memory / uncompressed_size, as the fraction
\* num / den (8-byte pointers and size_t)
get_locality_statistics(data, caps) ==
    LET total_memory == 8 * Len(data) + 8 * SumSeq(caps)
        uncompressed_size == Len(data) * (8 + 8 * 4)
    IN  IF total_memory >= uncompressed_size
        THEN [num |-> 0, den |-> 1]
        ELSE [num |-> uncompressed_size - total_memory, den |-> uncompressed_size]

\* locality_score < 0.7
ScoreBelowFloor(score) == score.num * 10 < 7 * score.den

\* balance_if_needed, which ends set_root, add_child and set_data: the counter
\* and the capacities it leaves, and whether rebalance_for_locality ran
balance_if_needed(ops, kids, caps) ==
    IF ops + 1 >= LAZY_BALANCE_THRESHOLD
    THEN [operations_since_balance |-> 0,
          capacity |-> [i \in 1 .. Len(kids) |-> Len(kids[i])],
          ran |-> 1]
    ELSE [operations_since_balance |-> ops + 1, capacity |-> caps, ran |-> 0]

\* Py_INCREF(obj) and Py_DECREF(obj) on the count kept in refs
Py_INCREF(refs, obj) == [refs EXCEPT ![obj] = @ + 1]

Py_DECREF(refs, obj) == [refs EXCEPT ![obj] = @ - 1]

\* release_python_objects: one Py_DECREF for every entry of node_data
RECURSIVE release_python_objects(_, _)
release_python_objects(refs, data) ==
    IF data = <<>> THEN refs
    ELSE release_python_objects(Py_DECREF(refs, Head(data)), Tail(data))

\* references to v the wrapper took that no slot of node_data stands for
Leaked(refs, data, v) ==
    refs[v] - Cardinality({i \in 1 .. Len(data) : data[i] = v})

\* NaryTree_set_root: Py_INCREF(data), then set_root(data), which on a
\* non-empty tree only replaces node_data[0] after releasing it
PySetRoot(v) ==
    LET empty == node_data = <<>>
        kids == IF empty THEN <<<<>>>> ELSE children
        b == balance_if_needed(operations_since_balance, kids,
                               IF empty THEN <<0>> ELSE capacity)
    IN  /\ node_data' = IF empty THEN <<v>> ELSE [node_data EXCEPT ![1] = v]
        /\ payload_refs' = IF empty THEN Py_INCREF(payload_refs, v)
                           ELSE Py_DECREF(Py_INCREF(payload_refs, v), node_data[1])
        /\ handed_out' = IF handed_out = 0 THEN 1 ELSE handed_out
        /\ children' = kids
        /\ next_id' = IF empty THEN 1 ELSE next_id
        /\ capacity' = b.capacity
        /\ operations_since_balance' = b.operations_since_balance
        /\ op' = Did("py_set_root", TRUE, 0, v, b.ran)
        /\ UNCHANGED <<storage_, ub, view, born, root_, size_, encoding,
                   array_nodes_, array_root_index_, use_array_storage_, decoder>>
        /\ AutoUnchanged

\* NodeView_add_child on a handle with node_id = parent_id: Py_INCREF(data),
\* then add_child(parent_id, data), which throws for
\* parent_id >= node_data.size(); the handler of the exception releases
\* nothing
PyAddChild(parent_id, v) ==
    /\ parent_id < handed_out
    /\ payload_refs' = Py_INCREF(payload_refs, v)
    /\ IF parent_id >= Len(node_data)
       THEN /\ Leaked(payload_refs, node_data, v) < MaxLeaks
            /\ op' = Did("py_add_child", FALSE, 0, parent_id, 0)
            /\ PyFieldsUnchanged
            /\ UNCHANGED handed_out
       ELSE LET child_id == next_id
                kids == [Append(children, <<>>)
                            EXCEPT ![parent_id + 1] = Append(@, child_id)]
                caps == [Append(capacity, 0) EXCEPT ![parent_id + 1] =
                            capacity_after_push_back(Len(children[parent_id + 1]), @)]
                b == balance_if_needed(operations_since_balance, kids, caps)
            IN  /\ Len(node_data) < MaxNodes
                /\ next_id' = next_id + 1
                /\ node_data' = Append(node_data, v)
                /\ children' = kids
                /\ capacity' = b.capacity
                /\ operations_since_balance' = b.operations_since_balance
                /\ op' = Did("py_add_child", TRUE, child_id, parent_id, b.ran)
                /\ handed_out' = IF handed_out <= child_id THEN child_id + 1
                                 ELSE handed_out
    /\ UNCHANGED <<storage_, ub, view, born, root_, size_, encoding,
                   array_nodes_, array_root_index_, use_array_storage_, decoder>>
    /\ AutoUnchanged

\* NodeView_set_data on a handle with node_id: Py_INCREF(data), then
\* set_data(node_id, data), which throws for node_id >= node_data.size() and
\* otherwise releases the payload it replaces
PySetData(node_id, v) ==
    /\ node_id < handed_out
    /\ UNCHANGED handed_out
    /\ IF node_id >= Len(node_data)
       THEN /\ Leaked(payload_refs, node_data, v) < MaxLeaks
            /\ payload_refs' = Py_INCREF(payload_refs, v)
            /\ op' = Did("py_set_data", FALSE, 0, node_id, 0)
            /\ PyFieldsUnchanged
       ELSE LET b == balance_if_needed(operations_since_balance, children, capacity)
            IN  /\ node_data' = [node_data EXCEPT ![node_id + 1] = v]
                /\ payload_refs' = Py_DECREF(Py_INCREF(payload_refs, v),
                                             node_data[node_id + 1])
                /\ capacity' = b.capacity
                /\ operations_since_balance' = b.operations_since_balance
                /\ op' = Did("py_set_data", TRUE, 0, node_id, b.ran)
                /\ UNCHANGED <<children, next_id>>
    /\ UNCHANGED <<storage_, ub, view, born, root_, size_, encoding,
                   array_nodes_, array_root_index_, use_array_storage_, decoder>>
    /\ AutoUnchanged

\* NaryTree_clear, and ~SuccinctNaryTree: clear() releases every payload
PyClear ==
    /\ payload_refs' = release_python_objects(payload_refs, node_data)
    /\ UNCHANGED handed_out
    /\ node_data' = <<>>
    /\ children' = <<>>
    /\ capacity' = <<>>
    /\ next_id' = 0
    /\ operations_since_balance' = 0
    /\ op' = Did("py_clear", TRUE, 0, 0, 0)
    /\ UNCHANGED <<storage_, ub, view, born, root_, size_, encoding,
                   array_nodes_, array_root_index_, use_array_storage_, decoder>>
    /\ AutoUnchanged

\* rebalance_for_locality(): the counter is reset and every children vector
\* is shrunk to its size
PyRebalance ==
    /\ operations_since_balance' = 0
    /\ capacity' = [i \in 1 .. Len(children) |-> Len(children[i])]
    /\ op' = Did("py_rebalance_for_locality", TRUE, 0, 0, 1)
    /\ UNCHANGED <<node_data, children, next_id, payload_refs, handed_out>>
    /\ UNCHANGED <<storage_, ub, view, born, root_, size_, encoding,
                   array_nodes_, array_root_index_, use_array_storage_, decoder>>
    /\ AutoUnchanged

(***************************************************************************)
(* NaryTreeAutoRebalancing<T>: root_ and size_ are its fields of that name,*)
(* beside max_children_per_node_, rebalance_operations_count_ and          *)
(* auto_rebalancing_enabled_.  A node is addressed by its path, as in the  *)
(* pointer tree; Node::parent_ is kept right by add_child and by           *)
(* build_balanced_subtree, so get_statistics().max_depth is the depth.     *)
(***************************************************************************)
REBALANCE_OPERATION_THRESHOLD == 10

\* largest e with k^e <= n, for k >= 2 and n >= 1
RECURSIVE FloorLogFrom(_, _, _, _)
FloorLogFrom(k, n, e, power) ==
    IF power * k > n THEN e ELSE FloorLogFrom(k, n, e + 1, power * k)

\* what the conversion of an infinite or NaN double to size_t, plus 1, can be:
\* undefined behaviour, which builds resolve to 0 or to a value beyond any depth
IndeterminateDepth == {1, SIZE_MAX \div 4}

\* static_cast<size_t>(std::log(size) / std::log(max_children)) + 1, as the
\* set of values it can take.  For max_children >= 2 and the sizes within the
\* bounds the quotient of doubles truncates to the exact floor.  log(0) is
\* -inf and the quotient of a finite value by it is -0.0.  log(1) is 0: the
\* quotient is inf or NaN.
optimal_depth(size, max_children) ==
    IF size = 0 THEN IndeterminateDepth
    ELSE IF max_children >= 2 THEN {FloorLogFrom(max_children, size, 0, 1) + 1}
    ELSE IF max_children = 0 THEN IF size = 1 THEN IndeterminateDepth ELSE {1}
    ELSE IndeterminateDepth

\* NaryTreeAutoRebalancing::needs_rebalancing: the values it can return
auto_needs_rebalancing(t, size, max_children) ==
    IF t = NullTree \/ size <= 3 THEN {FALSE}
    ELSE {TreeDepth(t) > (od * 3) \div 2 : od \in optimal_depth(size, max_children)}

\* NaryTreeAutoRebalancing::balance_tree: [root, count] it leaves
auto_balance_tree(t, size, max_children, count) ==
    IF t = NullTree \/ size <= 1 THEN [root |-> t, count |-> count]
    ELSE LET data == collect_all_data(t)
         IN  [root |-> build_balanced_subtree(data, 0, Len(data), max_children),
              count |-> count + 1]

\* trigger_rebalancing_check: the [root, count] outcomes
trigger_rebalancing_check(t, size, max_children, count, enabled) ==
    IF ~enabled THEN {[root |-> t, count |-> count]}
    ELSE LET first ==
                 IF size > 3 /\ size % REBALANCE_OPERATION_THRESHOLD = 0
                 THEN {IF nb THEN auto_balance_tree(t, size, max_children, count)
                       ELSE [root |-> t, count |-> count] :
                          nb \in auto_needs_rebalancing(t, size, max_children)}
                 ELSE {[root |-> t, count |-> count]}
         IN  IF size > 10
             THEN UNION {{IF TreeDepth(f.root) > od * 2
                          THEN auto_balance_tree(f.root, size, max_children, f.count)
                          ELSE f : od \in optimal_depth(size, max_children)} :
                            f \in first}
             ELSE first

\* Node::remove_child on the node at path: its child at child_index goes, with
\* the subtree below it
RECURSIVE remove_child(_, _, _)
remove_child(node, path, child_index) ==
    IF path = <<>>
    THEN [node EXCEPT !.children = Erase(@, child_index)]
    ELSE [node EXCEPT !.children[Head(path) + 1] =
             remove_child(@, Tail(path), child_index)]

\* the node at path
RECURSIVE node_at(_, _)
node_at(node, path) ==
    IF path = <<>> THEN node ELSE node_at(node.children[Head(path) + 1], Tail(path))

AutoFrame ==
    /\ UNCHANGED <<storage_, ub, view, born, encoding>>
    /\ ArrayUnchanged
    /\ UNCHANGED decoder
    /\ PyUnchanged

\* what a mutating call leaves once trigger_rebalancing_check ran on [t, size]
AutoMutated(name, t, size, a) ==
    \E o \in trigger_rebalancing_check(t, size, max_children_per_node_,
                                       rebalance_operations_count_,
                                       auto_rebalancing_enabled_) :
        /\ root_' = o.root
        /\ size_' = size
        /\ rebalance_operations_count_' = o.count
        /\ op' = Did(name, TRUE, 0, a, 0)
        /\ UNCHANGED <<max_children_per_node_, auto_rebalancing_enabled_>>
        /\ AutoFrame

AutoSetRoot(v) ==
    /\ rebalance_operations_count_ < MaxRebalances
    /\ AutoMutated("auto_set_root", MkNode(v, <<>>), 1, v)

AutoClear ==
    /\ root_' = NullTree
    /\ size_' = 0
    /\ rebalance_operations_count_' = 0
    /\ op' = Did("auto_clear", TRUE, 0, 0, 0)
    /\ UNCHANGED <<max_children_per_node_, auto_rebalancing_enabled_>>
    /\ AutoFrame

\* the trees add_child_to_node is followed on: small ones, and those grown to
\* the operation threshold, up to their first reconstruction
AutoCanGrow ==
    /\ size_ < MaxAutoNodes
    /\ \/ TreeCount(root_) < MaxPtrNodes
       \/ /\ size_ >= REBALANCE_OPERATION_THRESHOLD - 1
          /\ TreeCount(root_) < MaxAutoNodes
          /\ rebalance_operations_count_ = 0

\* position in preorder (0-based) of the node of `node` at path
RECURSIVE preorder_index(_, _)
preorder_index(node, path) ==
    IF path = <<>> THEN 0
    ELSE 1 + SumSeq([k \in 1 .. Head(path) |-> total_nodes(node.children[k])])
           + preorder_index(node.children[Head(path) + 1], Tail(path))

\* the paths of the nodes of the levels from `level` down, each level from
\* left to right: the order collect_all_data visits them in
RECURSIVE level_paths(_, _)
level_paths(t, level) ==
    IF level = <<>> THEN <<>>
    ELSE level \o
         level_paths(t, FlattenSeq([k \in 1 .. Len(level) |->
             [c \in 1 .. Len(node_at(t, level[k]).children) |->
                 Append(level[k], c - 1)]]))

\* position (0-based) at which collect_all_data visits the node at path
level_index(t, path) ==
    LET order == level_paths(t, <<<<>>>>)
    IN  (CHOOSE k \in 1 .. Len(order) : order[k] = path) - 1

\* find_node_by_data: the first node in preorder holding data, as its
\* position in preorder; SIZE_MAX is the nullptr
find_node_by_data(t, data) ==
    LET values == TreeData(t)
        hits == {k \in 1 .. Len(values) : values[k] = data}
    IN  IF hits = {} THEN SIZE_MAX ELSE Min(hits) - 1

\* What add_child_to_node returns, as positions in preorder of the tree it
\* leaves.  new_child refers to the node created; when
\* trigger_rebalancing_check rebuilt the tree that node is destroyed, and
\* new_child.data() reads freed memory: the value read is any value.
add_child_to_node_result(after, rebuilt, child_data) ==
    IF rebuilt
    THEN {find_node_by_data(after, g) : g \in Values \cup {GarbageData}}
    ELSE {find_node_by_data(after, child_data)}

\* add_child_to_node(parent_node, child_data), parent_node the node at path;
\* op.ret is the node returned and op.b the node created, both as positions
\* in preorder of the tree left (a rebuilt tree holds the value collected
\* k-th at position k)
AutoAddChild(path, v) ==
    /\ path \in TreePaths(root_)
    /\ AutoCanGrow
    /\ rebalance_operations_count_ < MaxRebalances
    /\ LET grown == add_child(root_, path, v)
           created == Append(path, Len(node_at(root_, path).children))
       IN  \E o \in trigger_rebalancing_check(grown, size_ + 1, max_children_per_node_,
                                              rebalance_operations_count_,
                                              auto_rebalancing_enabled_) :
               LET rebuilt == o.count # rebalance_operations_count_ IN
               \E returned \in add_child_to_node_result(o.root, rebuilt, v) :
                   /\ root_' = o.root
                   /\ size_' = size_ + 1
                   /\ rebalance_operations_count_' = o.count
                   /\ op' = Did("auto_add_child_to_node", TRUE, returned, Len(path),
                                IF rebuilt THEN level_index(grown, created)
                                ELSE preorder_index(grown, created))
                   /\ UNCHANGED <<max_children_per_node_, auto_rebalancing_enabled_>>
                   /\ AutoFrame

\* remove_child_from_node(parent_node, child_to_remove), the child at
\* child_index of the node at path: size_ goes down by one.  Followed on
\* small trees.
AutoRemoveChild(path, child_index) ==
    /\ path \in TreePaths(root_)
    /\ TreeCount(root_) <= MaxPtrNodes
    /\ child_index < Len(node_at(root_, path).children)
    /\ rebalance_operations_count_ < MaxRebalances
    /\ AutoMutated("auto_remove_child_from_node",
                   remove_child(root_, path, child_index), size_ - 1, Len(path))

AutoSetMaxChildren(max_children) ==
    /\ max_children_per_node_' = max_children
    /\ op' = Did("set_max_children", TRUE, 0, max_children, 0)
    /\ UNCHANGED <<root_, size_, rebalance_operations_count_, auto_rebalancing_enabled_>>
    /\ AutoFrame

\* enable_auto_rebalancing / disable_auto_rebalancing
AutoEnable(enabled) ==
    /\ auto_rebalancing_enabled_' = enabled
    /\ op' = Did("enable_auto_rebalancing", TRUE, 0, IF enabled THEN 1 ELSE 0, 0)
    /\ UNCHANGED <<root_, size_, rebalance_operations_count_, max_children_per_node_>>
    /\ AutoFrame

\* balance_tree() called by the user
AutoBalance ==
    /\ rebalance_operations_count_ < MaxRebalances
    /\ LET o == auto_balance_tree(root_, size_, max_children_per_node_,
                                  rebalance_operations_count_) IN
          /\ root_' = o.root
          /\ rebalance_operations_count_' = o.count
    /\ op' = Did("auto_balance_tree", TRUE, 0, 0, 0)
    /\ UNCHANGED <<size_, max_children_per_node_, auto_rebalancing_enabled_>>
    /\ AutoFrame

\* needs_rebalancing() called by the user; op.ret is 1 for true
AutoNeedsRebalancing ==
    /\ \E nb \in auto_needs_rebalancing(root_, size_, max_children_per_node_) :
          op' = Did("auto_needs_rebalancing", TRUE, IF nb THEN 1 ELSE 0, 0, 0)
    /\ UNCHANGED <<root_, size_>>
    /\ AutoUnchanged
    /\ AutoFrame

\* NaryTree::needs_rebalancing: the branching factor is the literal 3
needs_rebalancing(t, size) ==
    IF t = NullTree \/ size <= 3 THEN FALSE
    ELSE TreeDepth(t) > (FloorLogFrom(3, size, 0, 1) + 1) * 2

\* narytree_needs_rebalancing; op.ret is 1 for true
PtrNeedsRebalancing ==
    /\ op' = Did("needs_rebalancing", TRUE,
                 IF needs_rebalancing(root_, size_) THEN 1 ELSE 0, 0, 0)
    /\ encoding' = NoEncoding
    /\ ArrayUnchanged
    /\ UNCHANGED decoder
    /\ UNCHANGED <<root_, size_>>
    /\ ArenaUnchanged
    /\ AutoUnchanged

InitArenaVars ==
    /\ storage_ = EmptyStorage
    /\ ub = FALSE
    /\ view = NoView
    /\ born = <<>>

\* no call of decode_succinct is under way
NoDecoder == [pc |-> "idle"]

\* NaryTree(): no array storage, and no decode_succinct under way
InitArrayVars ==
    /\ array_nodes_ = <<>>
    /\ array_root_index_ = -1
    /\ use_array_storage_ = FALSE
    /\ decoder = NoDecoder

InitPtrVars ==
    /\ root_ = NullTree
    /\ size_ = 0
    /\ encoding = NoEncoding
    /\ InitArrayVars

\* SuccinctNaryTree() of the PyObject* arena
InitPyVars ==
    /\ node_data = <<>>
    /\ children = <<>>
    /\ capacity = <<>>
    /\ next_id = 0
    /\ operations_since_balance = 0
    /\ payload_refs = [v \in Values |-> 0]
    /\ handed_out = 0

\* NaryTreeAutoRebalancing(max_children = 3)
InitAutoVars ==
    /\ max_children_per_node_ = 3
    /\ rebalance_operations_count_ = 0
    /\ auto_rebalancing_enabled_ = TRUE

Init ==
    /\ InitArenaVars
    /\ InitPtrVars
    /\ InitPyVars
    /\ InitAutoVars
    /\ op = Did("init", TRUE, 0, 0, 0)

NextArena ==
    \/ \E v \in Values : ArenaSetRoot(v)
    \/ ArenaClear
    \/ \E p \in 0 .. MaxNodes, v \in Values : ArenaAddChild(p, v)
    \/ \E p \in 0 .. MaxNodes - 1, k \in 0 .. MaxCount - 1 : ArenaRemoveChild(p, k)
    \/ ArenaRebalance

NextView ==
    \/ ViewRoot
    \/ \E k \in 0 .. MaxCount - 1 : ViewChild(k)
    \/ ViewData
    \/ \E v \in Values : ViewSetData(v)
    \/ ViewChildCount
    \/ \E v \in Values : ViewAddChild(v)

NextPtr ==
    \/ \E v \in Values : PtrSetRoot(v)
    \/ PtrClear
    \/ \E path \in TreePaths(root_), v \in Values : PtrAddChild(path, v)
    \/ \E k \in 0 .. MaxK : PtrBalance(k)
    \/ PtrEncode
    \/ \E n \in 0 .. MaxPtrNodes : PtrDecode(n)
    \/ PtrNeedsRebalancing

\* all sequences over S of length at most n
BoundedSeq(S, n) == UNION {[1 .. k -> S] : k \in 0 .. n}

\* a SuccinctEncoding built by the caller of decode_succinct: any bits, any
\* values
InitCodec ==
    /\ InitArenaVars
    /\ InitPyVars
    /\ InitAutoVars
    /\ InitArrayVars
    /\ root_ = NullTree
    /\ size_ = 0
    /\ \E bits \in BoundedSeq(BOOLEAN, MaxBits), data \in BoundedSeq(Values, MaxPtrNodes) :
          encoding = [structure_bits |-> bits, data_array |-> data, node_count |-> 0]
    /\ op = Did("init", TRUE, 0, 0, 0)

NextCodec == \E n \in 0 .. MaxPtrNodes : PtrDecode(n)

\* NaryTreeAutoRebalancing(v) followed by n - 1 calls of add_child_to_node, each
\* on the node added last: a chain of n nodes
RECURSIVE GrowChain(_, _)
GrowChain(t, n) ==
    IF total_nodes(t) >= n THEN t
    ELSE GrowChain(add_child(t, [i \in 1 .. total_nodes(t) - 1 |-> 0],
                             Min(Values) + (total_nodes(t) % 2)), n)

\* a fresh NaryTreeAutoRebalancing, or one grown to one node short of
\* REBALANCE_OPERATION_THRESHOLD by calls none of which rebalances
InitAuto ==
    /\ InitArenaVars
    /\ InitPyVars
    /\ InitAutoVars
    /\ InitArrayVars
    /\ encoding = NoEncoding
    /\ \/ root_ = NullTree /\ size_ = 0
       \/ \E v \in Values :
             /\ root_ = GrowChain(MkNode(v, <<>>), REBALANCE_OPERATION_THRESHOLD - 1)
             /\ size_ = REBALANCE_OPERATION_THRESHOLD - 1
    /\ op = Did("init", TRUE, 0, 0, 0)

NextAuto ==
    \/ \E v \in Values : AutoSetRoot(v)
    \/ AutoClear
    \/ \E path \in TreePaths(root_), v \in Values : AutoAddChild(path, v)
    \/ \E path \in TreePaths(root_), k \in 0 .. MaxCount - 1 : AutoRemoveChild(path, k)
    \/ \E k \in 0 .. MaxK : AutoSetMaxChildren(k)
    \/ \E enabled \in BOOLEAN : AutoEnable(enabled)
    \/ AutoBalance
    \/ AutoNeedsRebalancing

NextPy ==
    \/ \E v \in Values : PySetRoot(v)
    \/ \E parent_id \in 0 .. MaxNodes, v \in Values : PyAddChild(parent_id, v)
    \/ \E node_id \in 0 .. MaxNodes, v \in Values : PySetData(node_id, v)
    \/ PyClear
    \/ PyRebalance

\* The arena after LAZY_BALANCE_THRESHOLD - 1 calls of add_child_to_node on a
\* fresh root: nodes 1 .. 9 under the root, every later node i under node
\* i % 10.
GrownParent(i) == IF i < 10 THEN 0 ELSE i % 10

RECURSIVE GrowFrom(_)
GrowFrom(st) ==
    IF st.node_count >= LAZY_BALANCE_THRESHOLD THEN st
    ELSE GrowFrom(append_child(st, GrownParent(st.node_count),
                               Min(Values) + (st.node_count % 2)))

InitGrown ==
    /\ \E v \in Values : storage_ = GrowFrom(initialize_with_root(EmptyStorage, v))
    /\ ub = FALSE
    /\ view = NoView
    /\ born = [i \in 1 .. LAZY_BALANCE_THRESHOLD |-> i - 1]
    /\ InitPtrVars
    /\ InitPyVars
    /\ InitAutoVars
    /\ op = Did("init", TRUE, 0, 0, 0)

NextLazy ==
    \/ \E parent_index \in 0 .. LAZY_BALANCE_THRESHOLD, v \in Values :
          ArenaAddChildAtThreshold(parent_index, v)
    \/ \E parent_index \in 0 .. LAZY_BALANCE_THRESHOLD, child_index \in 0 .. MaxCount - 1 :
          ArenaRemoveChildAtThreshold(parent_index, child_index)

SpecArena == Init /\ [][NextArena]_vars

SpecView == Init /\ [][NextArena \/ NextView]_vars

SpecPtr == Init /\ [][NextPtr]_vars

SpecLazy == InitGrown /\ [][NextLazy]_vars

SpecPy == Init /\ [][NextPy]_vars

SpecCodec == InitCodec /\ [][NextCodec]_vars

SpecAuto == InitAuto /\ [][NextAuto]_vars

(***************************************************************************)
(* Properties of the pointer tree and its codec.                           *)
(***************************************************************************)
\* smallest e with k^e >= n, i.e. ceil(log_k(n)) for k >= 2, n >= 1
RECURSIVE CeilLogFrom(_, _, _, _)
CeilLogFrom(k, n, e, power) ==
    IF power >= n THEN e ELSE CeilLogFrom(k, n, e + 1, power * k)

CeilLog(k, n) == CeilLogFrom(k, n, 0, 1)

\* C1: decode_succinct of what encode_succinct returned for a tree gives
\* back a tree of the same shape (same child count at every position,
\* children in the same order) holding the same values in the same places,
\* the empty tree included.
C1_RoundTrip ==
    [][(op'.name = "decode_succinct" /\ op.name = "encode_succinct")
           => (root_' = root_ /\ TreeData(root_') = TreeData(root_))]_vars

\* C2: after set_root, add_child, clear, balance_tree and decode_succinct,
\* size() is the number of nodes reachable from the root.
C2_SizeIsNodeCount ==
    op.name \in {"set_root", "add_child", "clear", "balance_tree", "decode_succinct"}
        => size_ = TreeCount(root_)

\* C6: the tree balance_tree(k) leaves, for k >= 2 and n >= 1 nodes, is at
\* most ceil(log_k(n)) + 1 nodes deep.
C6_BalancedDepth ==
    (op.name = "balance_tree" /\ op.a >= 2 /\ root_ # NullTree)
        => TreeDepth(root_) <= CeilLog(op.a, TreeCount(root_)) + 1

\* C7: balance_tree(max_children) keeps the number of nodes and the multiset
\* of values, for every max_children >= 0.
C7_BalancePreserves ==
    [][op'.name = "balance_tree"
           => (/\ TreeCount(root_') = TreeCount(root_)
               /\ SeqToBag(TreeData(root_')) = SeqToBag(TreeData(root_)))]_vars

(***************************************************************************)
(* Properties of the arena tree.                                           *)
(***************************************************************************)
\* the logical tree the arena holds: node i with its payload and, in index
\* order, the nodes whose parent_indices entry is i
RECURSIVE LogicalNode(_, _)
LogicalNode(st, i) ==
    MkNode(st.data_array[i + 1],
           LET kids == SortedSeq({j \in 1 .. st.node_count - 1 :
                                     st.parent_indices[j + 1] = i})
           IN  [k \in 1 .. Len(kids) |-> LogicalNode(st, kids[k])])

LogicalTree(st) == IF st.node_count = 0 THEN NullTree ELSE LogicalNode(st, 0)

\* node i lies in the subtree of node c
RECURSIVE InSubtree(_, _, _)
InSubtree(st, i, c) ==
    \/ i = c
    \/ i # 0 /\ InSubtree(st, st.parent_indices[i + 1], c)

\* C3: a successful add_child(p, v) leaves child_count(p) one higher than it
\* was and the node it returns has parent p, also when the call runs the lazy
\* rebalance before it returns.
C3_AddChildCountsAndParent ==
    [][(op'.name = "add_child_to_node" /\ op'.ok)
           => (/\ ~ub'
               /\ storage_'.child_counts[op'.a + 1] = storage_.child_counts[op'.a + 1] + 1
               /\ storage_'.parent_indices[op'.ret + 1] = op'.a
               /\ storage_'.data_array[op'.ret + 1] = op'.b)]_vars

\* C4: removing a node whose subtree holds d nodes lowers size() by d, and
\* every surviving node other than the root keeps its payload and has as
\* parent index the new index of the surviving node that was its parent.
C4_RemovalKeepsParents ==
    [][(op'.name = "remove_child_from_node" /\ op'.ok)
           => LET c == get_child_node_index(storage_, op'.a, op'.b)
                  gone == {i \in 0 .. storage_.node_count - 1 : InSubtree(storage_, i, c)}
                  NewIndex(i) == i - Cardinality({r \in gone : r < i})
              IN  /\ ~ub'
                  /\ storage_'.node_count = storage_.node_count - Cardinality(gone)
                  /\ \A i \in (1 .. storage_.node_count - 1) \ gone :
                        /\ storage_.parent_indices[i + 1] \notin gone
                        /\ storage_'.parent_indices[NewIndex(i) + 1]
                              = NewIndex(storage_.parent_indices[i + 1])
                        /\ storage_'.parent_indices[NewIndex(i) + 1] < storage_'.node_count
                        /\ storage_'.data_array[NewIndex(i) + 1]
                              = storage_.data_array[i + 1]]_vars

\* C5: rebalance_for_locality changes ids only: the logical tree (payloads,
\* parent/child relationships, sibling order), size() and max_depth are
\* what they were.
C5_ReorderChangesOnlyIds ==
    [][op'.name = "rebalance_for_locality"
           => (/\ ~ub'
               /\ storage_'.node_count = storage_.node_count
               /\ LogicalTree(storage_') = LogicalTree(storage_)
               /\ calculate_max_depth(storage_') = calculate_max_depth(storage_))]_vars

\* C8: add_child with a parent index >= the number of stored nodes fails and
\* leaves the storage, the operation counter included, as it was.
C8_InvalidParentRejected ==
    [][(op'.name = "add_child_to_node" /\ op'.a >= storage_.node_count)
           => (~op'.ok /\ storage_' = storage_ /\ ub' = ub)]_vars

\* add_child was refused on a tree of at least two nodes that has counted
\* operations
C8_Witness ==
    /\ op.name = "add_child_to_node"
    /\ ~op.ok
    /\ op.a >= storage_.node_count
    /\ storage_.node_count >= 2
    /\ storage_.operations_since_balance >= 1

(***************************************************************************)
(* Properties of the NodeView handles.                                     *)
(***************************************************************************)
\* C9: add_child through a handle whose node was removed fails and leaves
\* size() as it was.
C9_RemovedHandleRejected ==
    [][(op'.name = "view_add_child" /\ view.held
            /\ view.target = SIZE_MAX /\ view.moved_by = "remove")
           => (~op'.ok /\ storage_'.node_count = storage_.node_count)]_vars

\* C10: data, set_data, add_child and child_count through a handle whose node
\* a reordering moved to another index fail.
C10_StaleHandleRejected ==
    [][(/\ op'.name \in {"data", "set_data", "view_add_child", "child_count"}
        /\ view.held
        /\ view.moved_by = "reorder"
        /\ view.target # view.node_index)
           => ~op'.ok]_vars

(***************************************************************************)
(* Properties of the ids of the arena tree.                                *)
(***************************************************************************)
\* C12: removing a subtree changes the id of no surviving node: every node
\* outside the removed subtree is at the same index before and after.
C12_RemovalKeepsIds ==
    [][(op'.name = "remove_child_from_node" /\ op'.ok)
           => \A i \in 0 .. storage_.node_count - 1 :
                  index_after_removal(storage_, op'.ret, i) \in {i, SIZE_MAX}]_vars

\* C13: for every node p and every k < child_count(p), child(p, k) is the
\* node that, among the current children of p, was created by the (k+1)-th
\* add_child call: children come in insertion order.
C13_ChildrenInInsertionOrder ==
    ~ub => \A p \in 0 .. storage_.node_count - 1 :
               \A k \in 0 .. storage_.child_counts[p + 1] - 1 :
                   LET c == get_child_node_index(storage_, p, k) IN
                   /\ c < storage_.node_count
                   /\ storage_.parent_indices[c + 1] = p
                   /\ Cardinality({d \in 1 .. storage_.node_count - 1 :
                                      /\ storage_.parent_indices[d + 1] = p
                                      /\ born[d + 1] < born[c + 1]}) = k

\* C14: child(p, k) with k >= child_count(p) fails and returns no handle, and
\* no handle that child returns carries an index outside the arena (such as
\* SIZE_MAX).
C14_ChildOutOfRangeFails ==
    [][op'.name = "child"
           => LET count == IF view.node_index >= Len(storage_.child_counts) THEN 0
                           ELSE storage_.child_counts[view.node_index + 1]
              IN  /\ op'.b >= count => ~op'.ok
                  /\ op'.ok => view'.node_index < storage_.node_count]_vars

\* C19: in every reachable state of the arena tree, child_count(id) of every
\* valid id is the number of valid nodes whose parent is id.
C19_ChildCountMatchesChildren ==
    ~ub => \A i \in 0 .. storage_.node_count - 1 :
               storage_.child_counts[i + 1] =
                   Cardinality({d \in 1 .. storage_.node_count - 1 :
                                   storage_.parent_indices[d + 1] = i})

\* following parent links from node i reaches the root within `steps` links
RECURSIVE ReachesRoot(_, _, _)
ReachesRoot(st, i, steps) ==
    \/ i = 0
    \/ /\ steps > 0
       /\ i < Len(st.parent_indices)
       /\ ReachesRoot(st, st.parent_indices[i + 1], steps - 1)

\* C20: in every reachable non-empty state the arena is intact, its root is
\* id 0, the parent id of every other node designates a valid node, and the
\* parent links of every node lead to id 0 within size() steps.
C20_ParentsFormTree ==
    /\ ~ub
    /\ storage_.node_count > 0 =>
          /\ Len(storage_.parent_indices) = storage_.node_count
          /\ \A i \in 1 .. storage_.node_count - 1 :
                /\ storage_.parent_indices[i + 1] < storage_.node_count
                /\ ReachesRoot(storage_, i, storage_.node_count)

(***************************************************************************)
(* Properties of decode_succinct on arbitrary encodings.                   *)
(***************************************************************************)
\* opens minus closes over the first n bits
Balance(bits, n) ==
    Cardinality({i \in 1 .. n : bits[i]}) - Cardinality({i \in 1 .. n : ~bits[i]})

\* the value count differs from the number of open bits, or a close bit has
\* no matching open, or the stream ends with an open bit not closed
Malformed(e) ==
    \/ Len(e.data_array) # Cardinality({i \in 1 .. Len(e.structure_bits) : e.structure_bits[i]})
    \/ \E n \in 1 .. Len(e.structure_bits) : Balance(e.structure_bits, n) < 0
    \/ Balance(e.structure_bits, Len(e.structure_bits)) > 0

\* C15: decode_succinct of a malformed encoding produces no tree, never a
\* partially built one.
C15_MalformedRejected ==
    [][(op'.name = "decode_succinct" /\ Malformed(encoding))
           => (root_' = NullTree /\ size_' = 0)]_vars

(***************************************************************************)
(* Properties of the PyObject* arena.                                      *)
(***************************************************************************)
\* C11: set_root(value) on any tree, empty or not, discards the prior tree:
\* afterwards size() is 1, the root holds value and the root has no children.
C11_SetRootDiscards ==
    op.name = "py_set_root"
        => (/\ Len(node_data) = 1
            /\ node_data[1] = op.a
            /\ children = <<<<>>>>)

\* C16: a mutating call runs the locality reorder on its own only when the
\* mutation counter has reached the threshold and the locality score, taken
\* when the call checks, is below the floor of 0.7; the counter is 0 after a
\* reorder.
C16_LazyReorderOnlyWhenNeeded ==
    [][(op'.name \in {"py_set_root", "py_add_child", "py_set_data"} /\ op'.b = 1)
           => LET caps == IF op'.name = "py_add_child"
                          THEN [Append(capacity, 0) EXCEPT ![op'.a + 1] =
                                   capacity_after_push_back(Len(children[op'.a + 1]), @)]
                          ELSE IF node_data = <<>> THEN <<0>> ELSE capacity
              IN  /\ operations_since_balance + 1 >= LAZY_BALANCE_THRESHOLD
                  /\ ScoreBelowFloor(get_locality_statistics(node_data', caps))
                  /\ operations_since_balance' = 0]_vars

(***************************************************************************)
(* Properties of the rebalancing policy of the pointer trees.              *)
(***************************************************************************)
\* C17: set_root, add_child and remove_child never run the full
\* reconstruction on their own: balance_tree rebuilds the tree only when the
\* caller invokes it.
C17_NoImplicitReconstruction ==
    [][op'.name \in {"auto_set_root", "auto_add_child_to_node",
                     "auto_remove_child_from_node"}
           => rebalance_operations_count_' = rebalance_operations_count_]_vars

\* C18: needs_rebalancing() is true exactly when the depth of the tree exceeds
\* twice ceil(log_3(n)) for its n nodes, and false for the empty tree.
C18_NeedsRebalancingExact ==
    op.name = "needs_rebalancing"
        => (op.ret = 1 <=> (/\ root_ # NullTree
                            /\ TreeDepth(root_) > 2 * CeilLog(3, TreeCount(root_))))

(***************************************************************************)
(* Properties of encode_succinct.                                          *)
(***************************************************************************)
\* every prefix of bits has at least as many open as close bits, and the
\* totals are equal
BalancedParentheses(bits) ==
    /\ \A n \in 1 .. Len(bits) : Balance(bits, n) >= 0
    /\ Balance(bits, Len(bits)) = 0

\* C21: encode_succinct of a tree with n nodes yields exactly 2n structure
\* bits forming a balanced-parentheses sequence, exactly n values in
\* preorder, and node_count = n.
C21_EncodeShape ==
    op.name = "encode_succinct"
        => LET n == TreeCount(root_)
               e == encode_succinct(root_, size_, encoding.node_count)
           IN  /\ Len(e.structure_bits) = 2 * n
               /\ BalancedParentheses(e.structure_bits)
               /\ Len(e.data_array) = n
               /\ e.data_array = TreeData(root_)
               /\ encoding.data_array = e.data_array
               /\ encoding.node_count = n

(***************************************************************************)
(* Payload ownership in the PyObject* arena.                               *)
(***************************************************************************)
\* C22: every reference taken when a value is stored is released exactly
\* once, on overwrite, on clear or on teardown: the references held for a
\* payload are those of the slots holding it, so that destruction, which
\* releases one reference per slot, leaves acquisitions equal to releases.
C22_ReferencesBalanced ==
    \A v \in Values : Leaked(payload_refs, node_data, v) = 0

(***************************************************************************)
(* Depth queries: NaryTree::depth and get_statistics of the pointer tree,  *)
(* get_locality_statistics of the arena tree.  A behaviour of SpecDepth    *)
(* follows one tree object at a time: the operations of one class run      *)
(* while the object of the other is as constructed.                        *)
(***************************************************************************)
\* Node::height_from_root of the node at path: the walk along parent_ up to
\* the root.  parent_ is the node holding the child at each of the places
\* that link one (Node::add_child, build_balanced_subtree,
\* decode_succinct_preorder).
RECURSIVE height_from_root(_)
height_from_root(path) ==
    IF path = <<>> THEN 0
    ELSE 1 + height_from_root(SubSeq(path, 1, Len(path) - 1))

\* get_statistics with max_depth counted in edges
get_statistics_counting_edges(t) ==
    IF t = NullTree THEN [total_nodes |-> 0, max_depth |-> 0]
    ELSE [total_nodes |-> Cardinality(NodePaths(t)),
          max_depth |-> Max({height_from_root(p) : p \in NodePaths(t)})]

\* get_statistics: total_nodes and max_depth of the TreeStats returned
get_statistics(t) ==
    IF t = NullTree THEN [total_nodes |-> 0, max_depth |-> 0]
    ELSE [total_nodes |-> Cardinality(NodePaths(t)),
          max_depth |-> Max({height_from_root(p) + 1 : p \in NodePaths(t)})]

\* narytree_depth
PtrDepth ==
    /\ op' = Did("depth", TRUE, TreeDepth(root_), 0, 0)
    /\ encoding' = NoEncoding
    /\ ArrayUnchanged
    /\ UNCHANGED decoder
    /\ UNCHANGED <<root_, size_>>
    /\ ArenaUnchanged
    /\ AutoUnchanged

\* narytree_statistics
PtrStatistics ==
    /\ op' = Did("get_statistics", TRUE, get_statistics(root_).max_depth,
                 get_statistics(root_).total_nodes, 0)
    /\ encoding' = NoEncoding
    /\ ArrayUnchanged
    /\ UNCHANGED decoder
    /\ UNCHANGED <<root_, size_>>
    /\ ArenaUnchanged
    /\ AutoUnchanged

\* get_locality_statistics of the arena tree: max_depth and total_nodes
ArenaStatistics ==
    /\ ~ub
    /\ op' = Did("get_locality_statistics", TRUE, calculate_max_depth(storage_),
                 storage_.node_count, 0)
    /\ UNCHANGED <<storage_, ub, view, born>>
    /\ PtrUnchanged

PtrAsConstructed == root_ = NullTree /\ size_ = 0 /\ encoding = NoEncoding

ArenaAsConstructed == storage_ = EmptyStorage /\ ~ub /\ born = <<>>

\* the operations that change the shape of the pointer tree
NextPtrShape ==
    \/ \E v \in Values : PtrSetRoot(v)
    \/ PtrClear
    \/ \E path \in TreePaths(root_), v \in Values : PtrAddChild(path, v)
    \/ \E k \in 0 .. MaxK : PtrBalance(k)

NextDepth ==
    \/ ArenaAsConstructed /\ NextPtrShape
    \/ ArenaAsConstructed /\ PtrDepth
    \/ ArenaAsConstructed /\ PtrStatistics
    \/ PtrAsConstructed /\ NextArena
    \/ PtrAsConstructed /\ ArenaStatistics

SpecDepth == Init /\ [][NextDepth]_vars

\* nodes on the longest path from the root of t down to a leaf
LongestPath(t) ==
    IF t = NullTree THEN 0
    ELSE Max({Len(p) + 1 : p \in {q \in NodePaths(t) : node_at(t, q).children = <<>>}})

\* C23: depth() is the number of nodes on the longest root-to-leaf path (0
\* for the empty tree, 1 for a root alone), and the max_depth the statistics
\* report is the same number, for the pointer tree and for the arena tree.
C23_DepthIsLongestPath ==
    /\ op.name = "depth" => op.ret = LongestPath(root_)
    /\ op.name = "get_statistics" => op.ret = LongestPath(root_)
    /\ op.name = "get_locality_statistics"
           => op.ret = LongestPath(LogicalTree(storage_))

\* the statistics of a pointer tree of four nodes and depth 3
C23_Witness ==
    /\ op.name = "get_statistics"
    /\ op.ret = 3
    /\ TreeCount(root_) = 4

(***************************************************************************)
(* The order rebalance_for_locality leaves in the arena.                   *)
(***************************************************************************)
\* links from node i up to node 0, following at most steps of them
RECURSIVE DistanceToRoot(_, _, _)
DistanceToRoot(st, i, steps) ==
    IF i = 0 \/ steps = 0 \/ i >= Len(st.parent_indices) THEN 0
    ELSE 1 + DistanceToRoot(st, st.parent_indices[i + 1], steps - 1)

\* ids in breadth-first visitation order: no node has a smaller id than a
\* node closer to the root, and the children of a node fill one id range
BreadthFirstIds(st) ==
    LET ids == 0 .. st.node_count - 1
        kids(p) == {j \in ids \ {0} : st.parent_indices[j + 1] = p}
    IN  /\ \A i, j \in ids :
              DistanceToRoot(st, i, st.node_count) < DistanceToRoot(st, j, st.node_count)
                  => i < j
        /\ \A p \in ids :
              kids(p) # {} => Max(kids(p)) - Min(kids(p)) + 1 = Cardinality(kids(p))

\* C24: after rebalance_for_locality on a tree it reorders (more than 3
\* nodes) the root is id 0, ids follow breadth-first visitation order, and
\* the children of each node fill one contiguous id range in the sibling
\* order they had.
C24_ReorderIsBreadthFirst ==
    [][(op'.name = "rebalance_for_locality" /\ storage_.node_count > 3)
           => (/\ ~ub'
               /\ storage_'.node_count = storage_.node_count
               /\ BreadthFirstIds(storage_')
               /\ \A a, b \in 1 .. storage_.node_count - 1 :
                     (a < b /\ storage_.parent_indices[a + 1] = storage_.parent_indices[b + 1])
                         => index_after_reorder(storage_, a) < index_after_reorder(storage_, b))]_vars

(***************************************************************************)
(* The tree balance_tree builds.                                           *)
(***************************************************************************)
\* the values of the nodes in level, then those of the levels below, each
\* level from left to right
RECURSIVE LevelData(_)
LevelData(level) ==
    IF level = <<>> THEN <<>>
    ELSE [k \in 1 .. Len(level) |-> level[k].data] \o
         LevelData(FlattenSeq([k \in 1 .. Len(level) |-> level[k].children]))

\* breadth-first value sequence of t
LevelOrder(t) == IF t = NullTree THEN <<>> ELSE LevelData(<<t>>)

\* every node of t has at most k children, whose subtrees differ in size by
\* at most 1
EvenlySplit(t, k) ==
    \A p \in TreePaths(t) :
        LET kids == node_at(t, p).children
        IN  /\ Len(kids) <= k
            /\ \A a, b \in 1 .. Len(kids) :
                  total_nodes(kids[a]) - total_nodes(kids[b]) <= 1

\* C25: for a tree of at least 2 nodes and max_children >= 1, the preorder
\* value sequence of the tree balance_tree leaves is the breadth-first value
\* sequence of the tree before the call, and every node of the result has at
\* most max_children children whose subtree sizes differ by at most 1.
C25_BalanceLaysOutLevelOrder ==
    [][(op'.name = "balance_tree" /\ TreeCount(root_) >= 2 /\ op'.a >= 1)
           => (/\ TreeData(root_') = LevelOrder(root_)
               /\ EvenlySplit(root_', op'.a))]_vars

(***************************************************************************)
(* The handle add_child returns.                                           *)
(***************************************************************************)
\* C26: the handle add_child(p, v) returns designates the node this call
\* created, also when other nodes hold an equal value and when the call
\* rebalances the tree before it returns.
C26_AddChildReturnsCreated ==
    op.name = "auto_add_child_to_node" => op.ret = op.b

(***************************************************************************)
(* The array storage of NaryTree: array_nodes_ is the vector of ArrayNode, *)
(* array_root_index_ and use_array_storage_ the fields of that name.       *)
(***************************************************************************)
\* ArrayNode(d, parent)
ArrayNode(d, parent) ==
    [data |-> d, parent_index |-> parent, first_child_index |-> -1,
     child_count |-> 0, is_valid |-> TRUE]

\* position of x in the sequence s, 0-based
IndexIn(s, x) == (CHOOSE k \in 1 .. Len(s) : s[k] = x) - 1

\* the queue loop of NaryTree::rebalance_for_locality: the old indices in the
\* order they are appended to new_nodes
RECURSIVE array_bfs_order(_, _, _)
array_bfs_order(nodes, queue, order) ==
    IF queue = <<>> THEN order
    ELSE LET found == SortedSeq({i \in 0 .. Len(nodes) - 1 :
                          nodes[i + 1].is_valid /\ nodes[i + 1].parent_index = Head(queue)})
         IN  array_bfs_order(nodes, Tail(queue) \o found, order \o found)

\* NaryTree::rebalance_for_locality: [array_nodes_, array_root_index_] it
\* leaves
array_rebalance_for_locality(nodes, root_index, use) ==
    IF ~use \/ nodes = <<>>
    THEN [array_nodes_ |-> nodes, array_root_index_ |-> root_index]
    ELSE LET order == array_bfs_order(nodes, <<root_index>>, <<root_index>>)
             found(old) == SortedSeq({i \in 0 .. Len(nodes) - 1 :
                              nodes[i + 1].is_valid /\ nodes[i + 1].parent_index = old})
             moved(j) ==
                 LET old == order[j]
                     n == nodes[old + 1]
                     base == IF j = 1
                             THEN [n EXCEPT !.parent_index = -1,
                                            !.first_child_index = -1,
                                            !.child_count = 0]
                             ELSE [n EXCEPT !.parent_index =
                                                IndexIn(order, n.parent_index)]
                 IN  IF found(old) = <<>> THEN base
                     ELSE [base EXCEPT
                              !.first_child_index = IndexIn(order, found(old)[1]),
                              !.child_count = Len(found(old))]
         IN  [array_nodes_ |-> [j \in 1 .. Len(order) |-> moved(j)],
              array_root_index_ |-> 0]

\* convert_to_array_storage: the nodes are appended in the order the queue
\* yields them, each with the index of its parent; the parent's
\* first_child_index and child_count are set as its children arrive; then
\* rebalance_for_locality runs, while use_array_storage_ is what it was
convert_to_array_storage(t, nodes, root_index, use) ==
    IF t = NullTree
    THEN [array_nodes_ |-> nodes, array_root_index_ |-> root_index]
    ELSE LET order == level_paths(t, <<<<>>>>)
             converted ==
                 [k \in 1 .. Len(order) |->
                     LET node == node_at(t, order[k])
                         p == order[k]
                     IN  [ArrayNode(node.data,
                                    IF p = <<>> THEN -1
                                    ELSE IndexIn(order, SubSeq(p, 1, Len(p) - 1)))
                             EXCEPT !.child_count = Len(node.children),
                                    !.first_child_index =
                                        IF node.children = <<>> THEN -1
                                        ELSE IndexIn(order, Append(p, 0))]]
         IN  array_rebalance_for_locality(converted, 0, use)

\* enable_array_storage: [array_nodes_, array_root_index_, use_array_storage_]
enable_array_storage(t, nodes, root_index, use) ==
    IF ~use
    THEN LET c == convert_to_array_storage(t, nodes, root_index, use)
         IN  [array_nodes_ |-> c.array_nodes_,
              array_root_index_ |-> c.array_root_index_,
              use_array_storage_ |-> TRUE]
    ELSE [array_nodes_ |-> nodes, array_root_index_ |-> root_index,
          use_array_storage_ |-> use]

\* NaryTree(root_data, enable_array): use_array_storage_ is initialised with
\* enable_array before the body calls enable_array_storage()
PtrConstruct(v, enable_array) ==
    LET a == IF enable_array
             THEN enable_array_storage(MkNode(v, <<>>), <<>>, -1, enable_array)
             ELSE [array_nodes_ |-> <<>>, array_root_index_ |-> -1,
                   use_array_storage_ |-> enable_array]
    IN  /\ root_' = MkNode(v, <<>>)
        /\ size_' = 1
        /\ array_nodes_' = a.array_nodes_
        /\ array_root_index_' = a.array_root_index_
        /\ use_array_storage_' = a.use_array_storage_
        /\ UNCHANGED decoder
        /\ encoding' = NoEncoding
        /\ op' = Did("NaryTree", TRUE, 0, v, IF enable_array THEN 1 ELSE 0)
        /\ ArenaUnchanged
        /\ AutoUnchanged

\* narytree_enable_array_storage
PtrEnableArrayStorage ==
    LET a == enable_array_storage(root_, array_nodes_, array_root_index_,
                                  use_array_storage_)
    IN  /\ array_nodes_' = a.array_nodes_
        /\ array_root_index_' = a.array_root_index_
        /\ use_array_storage_' = a.use_array_storage_
        /\ UNCHANGED decoder
        /\ encoding' = NoEncoding
        /\ op' = Did("enable_array_storage", TRUE, 0,
                     IF use_array_storage_ THEN 1 ELSE 0, 0)
        /\ UNCHANGED <<root_, size_>>
        /\ ArenaUnchanged
        /\ AutoUnchanged

\* narytree_rebalance_for_locality
PtrRebalanceForLocality ==
    LET a == array_rebalance_for_locality(array_nodes_, array_root_index_,
                                          use_array_storage_)
    IN  /\ array_nodes_' = a.array_nodes_
        /\ array_root_index_' = a.array_root_index_
        /\ encoding' = NoEncoding
        /\ op' = Did("array_rebalance_for_locality", TRUE, 0, 0, 0)
        /\ UNCHANGED <<root_, size_, use_array_storage_>>
        /\ UNCHANGED decoder
        /\ ArenaUnchanged
        /\ AutoUnchanged

NextArray ==
    \/ \E v \in Values, enable_array \in BOOLEAN : PtrConstruct(v, enable_array)
    \/ \E v \in Values : PtrSetRoot(v)
    \/ PtrClear
    \/ \E path \in TreePaths(root_), v \in Values : PtrAddChild(path, v)
    \/ \E k \in 0 .. MaxK : PtrBalance(k)
    \/ PtrEnableArrayStorage
    \/ PtrRebalanceForLocality

SpecArray == Init /\ [][NextArray]_vars

\* the tree the array describes: the node at index i with its payload and,
\* in index order, the valid nodes whose parent_index is i
RECURSIVE ArrayLogicalNode(_, _)
ArrayLogicalNode(nodes, i) ==
    MkNode(nodes[i + 1].data,
           LET kids == SortedSeq({j \in 0 .. Len(nodes) - 1 :
                                     nodes[j + 1].is_valid /\ nodes[j + 1].parent_index = i})
           IN  [k \in 1 .. Len(kids) |-> ArrayLogicalNode(nodes, kids[k])])

ArrayLogicalTree(nodes, root_index) ==
    IF nodes = <<>> THEN NullTree ELSE ArrayLogicalNode(nodes, root_index)

\* C27: once array storage is enabled, by enable_array_storage() or by
\* constructing with enable_array = true, the array holds exactly the nodes
\* of the pointer tree with the same values and the same parent/child
\* relationships, also after later add_child and balance_tree calls.
C27_ArrayMirrorsTree ==
    use_array_storage_ => ArrayLogicalTree(array_nodes_, array_root_index_) = root_

(***************************************************************************)
(* The sizes of the vectors of the arena.                                  *)
(***************************************************************************)
\* C28: in every reachable state of the succinct working storage
\* structure_bits holds exactly 2 x node_count bits, and data_array,
\* parent_indices, child_counts and first_child_pos each hold exactly
\* node_count entries.
C28_VectorSizes ==
    /\ Len(storage_.structure_bits) = 2 * storage_.node_count
    /\ Len(storage_.data_array) = storage_.node_count
    /\ Len(storage_.parent_indices) = storage_.node_count
    /\ Len(storage_.child_counts) = storage_.node_count
    /\ Len(storage_.first_child_pos) = storage_.node_count

open_bit(d) == d.bit_index < Len(d.structure) /\ d.structure[d.bit_index + 1]

\* decode_succinct_preorder returns node: the caller's loop links it when it
\* is not the nullptr, decode_succinct makes it the root
return_node(d, node) ==
    IF d.stack = <<>>
    THEN [d EXCEPT !.pc = "done", !.root = node]
    ELSE [d EXCEPT !.pc = "loop",
                   !.stack[Len(d.stack)] =
                       IF node # NullTree
                       THEN MkNode(@.data, Append(@.children, node))
                       ELSE @]

\* as enter_call, with the data tested before the bit is consumed
enter_call_testing_data_first(d) ==
    LET c == [d EXCEPT !.calls = @ + 1]
    IN  IF ~open_bit(c) THEN return_node(c, NullTree)
        ELSE IF c.data_index >= Len(c.data) THEN return_node(c, NullTree)
        ELSE [c EXCEPT !.pc = "loop",
                       !.bit_index = @ + 1,
                       !.stack = Append(@, MkNode(c.data[c.data_index + 1], <<>>)),
                       !.data_index = @ + 1]

\* decode_succinct_preorder from its entry to its while loop
enter_call(d) ==
    LET c == [d EXCEPT !.calls = @ + 1]
    IN  IF ~open_bit(c) THEN return_node(c, NullTree)
        ELSE LET s == [c EXCEPT !.bit_index = @ + 1]
             IN  IF s.data_index >= Len(s.data) THEN return_node(s, NullTree)
                 ELSE [s EXCEPT !.pc = "loop",
                                !.stack = Append(@, MkNode(s.data[s.data_index + 1], <<>>)),
                                !.data_index = @ + 1]

DecodeFrame ==
    /\ ArenaUnchanged
    /\ AutoUnchanged
    /\ ArrayUnchanged
    /\ UNCHANGED <<root_, size_, encoding, op>>

\* decode_succinct: the test of the two arrays, then the call for the root
DecodeSuccinct ==
    /\ decoder.pc = "start"
    /\ decoder' = IF decoder.structure = <<>> \/ decoder.data = <<>>
                  THEN [decoder EXCEPT !.pc = "done"]
                  ELSE enter_call(decoder)
    /\ DecodeFrame

\* one iteration of the while loop: the call for the next child
DecodeIterate ==
    /\ decoder.pc = "loop"
    /\ open_bit(decoder)
    /\ decoder.calls <= Len(decoder.structure)
    /\ decoder' = enter_call(decoder)
    /\ DecodeFrame

\* the loop ends: the end marker is skipped when there is one and the node
\* is returned
DecodeReturn ==
    /\ decoder.pc = "loop"
    /\ ~open_bit(decoder)
    /\ LET node == decoder.stack[Len(decoder.stack)]
           d == [decoder EXCEPT !.stack = SubSeq(@, 1, Len(@) - 1),
                                !.bit_index =
                                    IF @ < Len(decoder.structure) THEN @ + 1 ELSE @]
       IN  decoder' = return_node(d, node)
    /\ DecodeFrame

\* decode_succinct is called with any encoding within the bounds
InitDecode ==
    /\ InitArenaVars
    /\ InitPyVars
    /\ InitAutoVars
    /\ array_nodes_ = <<>>
    /\ array_root_index_ = -1
    /\ use_array_storage_ = FALSE
    /\ root_ = NullTree
    /\ size_ = 0
    /\ \E bits \in BoundedSeq(BOOLEAN, MaxBits), data \in BoundedSeq(Values, MaxPtrNodes) :
          /\ encoding = [structure_bits |-> bits, data_array |-> data, node_count |-> 0]
          /\ decoder = [pc |-> "start", structure |-> bits, data |-> data,
                        bit_index |-> 0, data_index |-> 0, stack |-> <<>>,
                        root |-> NullTree, calls |-> 0]
    /\ op = Did("init", TRUE, 0, 0, 0)

NextDecode == DecodeSuccinct \/ DecodeIterate \/ DecodeReturn

\* the call runs in one thread and nothing makes it wait: a step that can be
\* taken is taken
SpecDecode == InitDecode /\ [][NextDecode]_vars /\ WF_vars(NextDecode)

\* the bit index has not moved back, and has moved forward if the step was a
\* call of decode_succinct_preorder on an open bit
Advances ==
    /\ decoder'.bit_index >= decoder.bit_index
    /\ (decoder'.calls > decoder.calls /\ open_bit(decoder))
           => decoder'.bit_index > decoder.bit_index

\* C30: decode_succinct terminates on every encoding, well formed or not:
\* every call of decode_succinct_preorder made by the loop, which is every
\* iteration of the loop, moves the bit index forward, no step moves it back
\* or past the end of the structure bits, no more calls are made than there
\* are structure bits, and the call returns
C30_DecodeTerminates ==
    /\ [][decoder.pc \in {"start", "loop"} => Advances]_vars
    /\ [](decoder.pc # "idle" =>
             /\ decoder.bit_index <= Len(decoder.structure)
             /\ decoder.calls <= Len(decoder.structure))
    /\ <>(decoder.pc = "done")

\* a malformed encoding has been decoded: a child had no data left, and bits
\* were left over when the root was returned
C30_Witness ==
    /\ decoder.pc = "done"
    /\ decoder.calls >= 3
    /\ decoder.data_index = Len(decoder.data)
    /\ decoder.calls > Len(decoder.data)
    /\ decoder.bit_index < Len(decoder.structure)



====
